---- MODULE Spec2Model ----
(***************************************************************************)
(* ProtoConverter (src/main.py): a PyQt front-end that runs protoc and     *)
(* grpc_tools.protoc as subprocesses from a background QThread             *)
(* (ProtocWorker) and reports through two signals, progress(str) and       *)
(* finished(bool, str), to the main window (ProtoConverterGUI).            *)
(*                                                                         *)
(* Text is modelled as a sequence of tokens (single characters and the     *)
(* fixed pieces of the source's f-strings), so that formatting a message   *)
(* or a command line is concatenation and taking a path apart is a search  *)
(* for "/".  The Chinese literals of the source are written in English.    *)
(***************************************************************************)
EXTENDS Integers, Sequences, FiniteSets, TLC

VARIABLES
    proto_files,          \* ProtoConverterGUI.proto_files (the list object the workers share)
    include_paths,        \* ProtoConverterGUI.include_paths
    output_dir,           \* output_dir_edit.text()
    java_checkbox,        \* java_checkbox.isChecked()
    python_checkbox,      \* python_checkbox.isChecked()
    python_grpc_checkbox, \* python_grpc_checkbox.isChecked()
    convert_btn,          \* convert_btn.isEnabled()
    cancel_btn,           \* cancel_btn.isEnabled()
    progress_bar,         \* progress_bar.isVisible()
    worker,               \* ProtoConverterGUI.worker: 0 is None, else 1, the head of workers
    guiPc,                \* where the GUI thread is: "idle", or "wait" inside worker.wait()
    log_text,             \* the lines log_message appended since the last start, without their time stamps
    workers,              \* the ProtocWorkers whose threads exist: the one self.worker
                          \* names first, then earlier ones whose threads have not ended
    queue,                \* the signal emissions posted to the GUI thread and not yet
                          \* dispatched, oldest first
    procs,                \* the generation subprocesses spawned since the last start
    dirs,                 \* the directories os.makedirs has created
    probe,                \* how the last grpc_tools probe of start_conversion ended
    dialog                \* the QMessageBox the last start_conversion showed, if any

vars == <<proto_files, include_paths, output_dir, java_checkbox, python_checkbox,
          python_grpc_checkbox, convert_btn, cancel_btn, progress_bar, worker,
          guiPc, log_text, workers, queue, procs, dirs, probe, dialog>>

guiVars == <<proto_files, include_paths, output_dir, java_checkbox, python_checkbox,
             python_grpc_checkbox, convert_btn, cancel_btn, progress_bar, worker,
             guiPc, log_text, probe, dialog>>

(***************************************************************************)
(* Bounds of the model.                                                    *)
(***************************************************************************)
MaxFiles == 2       \* longest schema-file list of the GUI specification
MaxWorkers == 2     \* most worker threads alive at one time
MaxJobFiles == 3    \* longest schema-file list a worker is constructed with on its own
MaxIncludes == 2    \* longest include-path list
MaxStale == 0       \* most emissions still queued when a conversion is started

(***************************************************************************)
(* Text and path helpers.                                                  *)
(***************************************************************************)
Digits == <<"0", "1", "2", "3", "4", "5", "6", "7", "8", "9">>

\* str(n) for n >= 0
RECURSIVE Str(_)
Str(n) == IF n < 10 THEN <<Digits[n + 1]>>
          ELSE Str(n \div 10) \o <<Digits[(n % 10) + 1]>>

\* p.rfind("/") + 1: the length of the prefix ending at the last slash, 0 if none
RECURSIVE RFindSep(_, _)
RFindSep(p, k) == IF k = 0 THEN 0
                  ELSE IF p[k] = "/" THEN k
                  ELSE RFindSep(p, k - 1)

\* head.rstrip("/")
RECURSIVE RStripSep(_)
RStripSep(s) == IF s # <<>> /\ s[Len(s)] = "/" THEN RStripSep(SubSeq(s, 1, Len(s) - 1))
                ELSE s

AllSep(s) == \A k \in 1..Len(s) : s[k] = "/"

\* os.path.dirname
dirname(p) ==
    LET head == SubSeq(p, 1, RFindSep(p, Len(p)))
    IN  IF head # <<>> /\ ~AllSep(head) THEN RStripSep(head) ELSE head

\* os.path.basename
basename(p) == SubSeq(p, RFindSep(p, Len(p)) + 1, Len(p))

\* os.path.join(a, b) for two components
join(a, b) ==
    IF b # <<>> /\ b[1] = "/" THEN b
    ELSE IF a = <<>> \/ a[Len(a)] = "/" THEN a \o b
    ELSE a \o <<"/">> \o b

(***************************************************************************)
(* What the environment can answer.                                        *)
(***************************************************************************)
StderrTexts == {<<"E", "1">>}     \* result.stderr of a failed subprocess
ExcTexts == {<<"OSError">>}                        \* str(e) of a raised exception
\* subprocess.run: a completed process with its return code and stderr
Results == {[returncode |-> 0, stderr |-> <<>>]}
               \cup {[returncode |-> 1, stderr |-> s] : s \in StderrTexts}
Raises == {[raised |-> FALSE, text |-> <<>>]}
              \cup {[raised |-> TRUE, text |-> e] : e \in ExcTexts}

PROTOC == <<"protoc">>                             \* protoc_path_edit.text()
PYTHON == <<"python">>                             \* sys.executable

(***************************************************************************)
(* The texts ProtocWorker emits.                                           *)
(***************************************************************************)
ProcessingText(proto_file, pos, total) ==
    <<"Processing: ">> \o basename(proto_file)
        \o <<" (">> \o Str(pos) \o <<"/">> \o Str(total) \o <<")">>
JavaProgressText(proto_file) == <<"Generating Java: ">> \o basename(proto_file)
GrpcProgressText(proto_file) == <<"Generating Python + gRPC: ">> \o basename(proto_file)
PythonProgressText(proto_file) == <<"Generating Python: ">> \o basename(proto_file)
\* the bug of leaving the captured stderr out
JavaFailedTextBare(stderr) == <<"Java generation failed: ">>
JavaFailedText(stderr) == <<"Java generation failed: ">> \o stderr
GrpcFailedText(stderr) == <<"Python gRPC generation failed: ">> \o stderr
GrpcErrorText(e) == <<"Python gRPC generation error: ">> \o e
PythonFailedText(stderr) == <<"Python generation failed: ">> \o stderr
PythonErrorText(e) == <<"Python generation error: ">> \o e
RunErrorText(e) == <<"Error while processing: ">> \o e
SuccessText(success_count) == <<"Processed ">> \o Str(success_count) \o <<" files">>

Progress(text) == [sig |-> "progress", success |-> TRUE, text |-> text]
Finished(success, text) == [sig |-> "finished", success |-> success, text |-> text]

(***************************************************************************)
(* The command lines.                                                      *)
(***************************************************************************)
ProtoPathArg(d) == <<"--proto_path=">> \o d

RECURSIVE IncludePathArgs(_)
IncludePathArgs(paths) ==
    IF paths = <<>> THEN <<>>
    ELSE <<ProtoPathArg(Head(paths))>> \o IncludePathArgs(Tail(paths))

\* the bug of putting the directory of the file after the include paths
IncludeArgsDirLast(proto_file, paths) ==
    LET proto_dir == dirname(proto_file)
        own == IF proto_dir # <<>> THEN <<ProtoPathArg(proto_dir)>> ELSE <<>>
        args == IncludePathArgs(paths) \o own
    IN  IF args = <<>> THEN <<ProtoPathArg(<<".">>)>> ELSE args

\* run, lines 38-51: the directory of the file, the include paths, "." if none
IncludeArgs(proto_file, paths) ==
    LET proto_dir == dirname(proto_file)
        own == IF proto_dir # <<>> THEN <<ProtoPathArg(proto_dir)>> ELSE <<>>
        args == own \o IncludePathArgs(paths)
    IN  IF args = <<>> THEN <<ProtoPathArg(<<".">>)>> ELSE args

JavaCmd(protoc_path, java_output, include_args, proto_file) ==
    <<protoc_path, <<"--java_out=">> \o java_output>> \o include_args \o <<proto_file>>

GrpcCmd(python_output, include_args, proto_file) ==
    <<PYTHON, <<"-m">>, <<"grpc_tools.protoc">>,
      <<"--python_out=">> \o python_output,
      <<"--grpc_python_out=">> \o python_output>> \o include_args \o <<proto_file>>

PythonCmd(python_output, include_args, proto_file) ==
    <<PYTHON, <<"-m">>, <<"grpc_tools.protoc">>,
      <<"--python_out=">> \o python_output>> \o include_args \o <<proto_file>>

(***************************************************************************)
(* ProtocWorker.                                                           *)
(***************************************************************************)
\* __init__: the file list is kept by reference; include_paths or [] keeps the
\* caller's list by reference unless it is empty, and then a list of its own.
NewWorker(out, gj, gp, gg, protoc_path, paths) ==
    [pc |-> "start", i |-> 0, total_files |-> 0, success_count |-> 0,
     proto_file |-> <<>>, include_args |-> <<>>,
     output_dir |-> out, generate_java |-> gj, generate_python |-> gp,
     generate_python_grpc |-> gg, protoc_path |-> protoc_path,
     shares_include_paths |-> (paths # <<>>)]

\* self.proto_files and self.include_paths as the worker sees them now
WorkerFiles(w) == proto_files
WorkerIncludePaths(w) == IF workers[w].shares_include_paths THEN include_paths ELSE <<>>

\* QThread.isRunning: true from start() until the thread has left run
StillRunning(r) == r.pc \notin {"finished", "terminated"}
isRunning(w) == StillRunning(workers[w])

Emit(msg) == queue' = Append(queue, msg)

\* the bug of returning without the emit
ReturnSilently(w, success, text) ==
    /\ UNCHANGED queue
    /\ workers' = [workers EXCEPT ![w].pc = "returned"]

\* an emit of finished followed by the return statement of run
Return(w, success, text) ==
    /\ Emit(Finished(success, text))
    /\ workers' = [workers EXCEPT ![w].pc = "returned"]

HasPython(r) == r.generate_python \/ r.generate_python_grpc

\* the bug of moving on without counting the file
CountedNot(r) == [r EXCEPT !.i = @ + 1, !.pc = "loop"]

\* line 87 and the loop's next iteration
Counted(r) == [r EXCEPT !.success_count = @ + 1, !.i = @ + 1, !.pc = "loop"]

\* lines 30-32
RunBegin(w) ==
    /\ workers[w].pc = "start"
    /\ UNCHANGED guiVars
    /\ workers' = [workers EXCEPT ![w].pc = "loop",
                                  ![w].success_count = 0,
                                  ![w].total_files = Len(WorkerFiles(w))]
    /\ UNCHANGED <<queue, procs, dirs>>

\* the bug of announcing no file
LoopStepQuiet(w) ==
    LET r == workers[w] IN
    /\ r.pc = "loop"
    /\ UNCHANGED guiVars
    /\ IF r.i < Len(WorkerFiles(w))
       THEN LET f == WorkerFiles(w)[r.i + 1]
                r1 == [r EXCEPT !.proto_file = f,
                                !.include_args = IncludeArgs(f, WorkerIncludePaths(w))]
            IN  /\ UNCHANGED queue
                /\ workers' = [workers EXCEPT ![w] =
                       IF r.generate_java THEN [r1 EXCEPT !.pc = "java"]
                       ELSE IF HasPython(r) THEN [r1 EXCEPT !.pc = "python"]
                       ELSE Counted(r1)]
       ELSE Return(w, TRUE, SuccessText(r.success_count))
    /\ UNCHANGED <<procs, dirs>>

\* lines 34-51 for the next file, or line 89 when the list is exhausted
LoopStep(w) ==
    LET r == workers[w] IN
    /\ r.pc = "loop"
    /\ UNCHANGED guiVars
    /\ IF r.i < Len(WorkerFiles(w))
       THEN LET f == WorkerFiles(w)[r.i + 1]
                r1 == [r EXCEPT !.proto_file = f,
                                !.include_args = IncludeArgs(f, WorkerIncludePaths(w))]
            IN  /\ Emit(Progress(ProcessingText(f, r.i + 1, r.total_files)))
                /\ workers' = [workers EXCEPT ![w] =
                       IF r.generate_java THEN [r1 EXCEPT !.pc = "java"]
                       ELSE IF HasPython(r) THEN [r1 EXCEPT !.pc = "python"]
                       ELSE Counted(r1)]
       ELSE Return(w, TRUE, SuccessText(r.success_count))
    /\ UNCHANGED <<procs, dirs>>

\* lines 53-65: makedirs, the progress emit and the spawn; an exception of
\* makedirs or of the spawn goes to line 91
JavaSpawn(w) ==
    LET r == workers[w]
        java_output == join(r.output_dir, <<"java">>)
    IN
    /\ r.pc = "java"
    /\ UNCHANGED guiVars
    /\ \E mk \in Raises, sp \in Raises :
          IF mk.raised
          THEN /\ Return(w, FALSE, RunErrorText(mk.text))
               /\ UNCHANGED <<procs, dirs>>
          ELSE /\ dirs' = dirs \cup {java_output}
               /\ IF sp.raised
                  THEN /\ queue' = queue \o
                              <<Progress(JavaProgressText(r.proto_file)),
                                Finished(FALSE, RunErrorText(sp.text))>>
                       /\ workers' = [workers EXCEPT ![w].pc = "returned"]
                       /\ UNCHANGED procs
                  ELSE /\ Emit(Progress(JavaProgressText(r.proto_file)))
                       /\ procs' = Append(procs,
                              [run |-> w, pos |-> r.i + 1, file |-> r.proto_file, alive |-> TRUE,
                               returncode |-> 0, stderr |-> <<>>,
                               cmd |-> JavaCmd(r.protoc_path, java_output,
                                               r.include_args, r.proto_file)])
                       /\ workers' = [workers EXCEPT ![w].pc = "java_wait"]

\* a subprocess once subprocess.run has returned result for it
Exited(p, result) ==
    [p EXCEPT !.alive = FALSE, !.returncode = result.returncode, !.stderr = result.stderr]

\* the subprocess of worker w that has not exited
InFlight(w) == CHOOSE k \in 1..Len(procs) : procs[k].run = w /\ procs[k].alive

\* lines 65-68: the subprocess exits
JavaResult(w) ==
    LET r == workers[w] IN
    /\ r.pc = "java_wait"
    /\ UNCHANGED guiVars
    /\ \E result \in Results :
          /\ procs' = [procs EXCEPT ![InFlight(w)] = Exited(@, result)]
          /\ IF result.returncode # 0
             THEN Return(w, FALSE, JavaFailedText(result.stderr))
             ELSE /\ workers' = [workers EXCEPT ![w] =
                         IF HasPython(r) THEN [r EXCEPT !.pc = "python"] ELSE Counted(r)]
                  /\ UNCHANGED queue
    /\ UNCHANGED dirs

\* the bug of asking the basic option first
UseGrpcUnlessBasic(r) == r.generate_python_grpc /\ ~r.generate_python

\* line 75: the RPC option decides which helper runs
UseGrpc(r) == r.generate_python_grpc

\* lines 70-82 and the spawn inside the helper (lines 96-106, 119-128): an
\* exception of makedirs goes to line 91, one of the spawn to the helper's except
PythonSpawn(w) ==
    LET r == workers[w]
        python_output == join(r.output_dir, <<"python">>)
        text == IF UseGrpc(r) THEN GrpcProgressText(r.proto_file)
                ELSE PythonProgressText(r.proto_file)
        cmd == IF UseGrpc(r)
               THEN GrpcCmd(python_output, r.include_args, r.proto_file)
               ELSE PythonCmd(python_output, r.include_args, r.proto_file)
    IN
    /\ r.pc = "python"
    /\ UNCHANGED guiVars
    /\ \E mk \in Raises, sp \in Raises :
          IF mk.raised
          THEN /\ Return(w, FALSE, RunErrorText(mk.text))
               /\ UNCHANGED <<procs, dirs>>
          ELSE /\ dirs' = dirs \cup {python_output}
               /\ IF sp.raised
                  THEN /\ queue' = queue \o
                              <<Progress(text),
                                Finished(FALSE,
                                    IF UseGrpc(r) THEN GrpcErrorText(sp.text)
                                    ELSE PythonErrorText(sp.text))>>
                       /\ workers' = [workers EXCEPT ![w].pc = "returned"]
                       /\ UNCHANGED procs
                  ELSE /\ Emit(Progress(text))
                       /\ procs' = Append(procs,
                              [run |-> w, pos |-> r.i + 1, file |-> r.proto_file, alive |-> TRUE,
                               returncode |-> 0, stderr |-> <<>>,
                               cmd |-> cmd])
                       /\ workers' = [workers EXCEPT ![w].pc = "python_wait"]

\* the bug of going on to the next file after a failed toolchain subprocess
PythonResultGoesOn(w) ==
    LET r == workers[w] IN
    /\ r.pc = "python_wait"
    /\ UNCHANGED guiVars
    /\ \E result \in Results :
          /\ procs' = [procs EXCEPT ![InFlight(w)] = Exited(@, result)]
          /\ workers' = [workers EXCEPT ![w] = Counted(r)]
          /\ IF result.returncode # 0
             THEN Emit(Finished(FALSE, PythonFailedText(result.stderr)))
             ELSE UNCHANGED queue
    /\ UNCHANGED dirs

\* lines 106-111 and 128-133, then lines 84-87
PythonResult(w) ==
    LET r == workers[w] IN
    /\ r.pc = "python_wait"
    /\ UNCHANGED guiVars
    /\ \E result \in Results :
          /\ procs' = [procs EXCEPT ![InFlight(w)] = Exited(@, result)]
          /\ IF result.returncode # 0
             THEN Return(w, FALSE,
                      IF UseGrpc(r) THEN GrpcFailedText(result.stderr)
                      ELSE PythonFailedText(result.stderr))
             ELSE /\ workers' = [workers EXCEPT ![w] = Counted(r)]
                  /\ UNCHANGED queue
    /\ UNCHANGED dirs

RemoveAt(ws, k) == SubSeq(ws, 1, k - 1) \o SubSeq(ws, k + 1, Len(ws))

\* the subprocesses of the workers that stay when worker w goes
RECURSIVE WithoutWorker(_, _)
WithoutWorker(ps, w) ==
    IF ps = <<>> THEN <<>>
    ELSE LET p == Head(ps) IN
         (IF p.run = w THEN <<>>
          ELSE IF p.run > w THEN <<[p EXCEPT !.run = @ - 1]>>
          ELSE <<p>>) \o WithoutWorker(Tail(ps), w)

\* run has returned: the thread ends and isRunning becomes false; a worker that
\* self.worker no longer names is gone with its thread
ThreadExit(w) ==
    /\ workers[w].pc = "returned"
    /\ UNCHANGED guiVars
    /\ IF w = worker
       THEN /\ workers' = [workers EXCEPT ![w].pc = "finished"]
            /\ UNCHANGED procs
       ELSE /\ workers' = RemoveAt(workers, w)
            /\ procs' = WithoutWorker(procs, w)
    /\ UNCHANGED <<queue, dirs>>

(***************************************************************************)
(* A ProtocWorker on its own: constructed with any arguments, started and  *)
(* left to run, with nobody editing its lists and nobody terminating it.   *)
(***************************************************************************)
FileA == <<"/", "d", "/", "a">>      \* /d/a
FileB == <<"/", "d", "/", "b">>      \* /d/b
FileC == <<"c">>                     \* c, a path with no directory part
FileR == <<"/", "r">>                \* /r, a file of the root directory
IncI == <<"/", "i">>
IncJ == <<"/", "j">>
OutDir == <<"/", "o">>

JobFiles == {FileA, FileC, FileR}
SeqsUpTo(S, n) == UNION {[1..k -> S] : k \in 0..n}
NoRepeat(s) == \A j, k \in 1..Len(s) : j # k => s[j] # s[k]

WorkerInit ==
    /\ proto_files \in SeqsUpTo(JobFiles, MaxJobFiles)
    /\ include_paths \in {s \in SeqsUpTo({IncI, IncJ}, MaxIncludes) : NoRepeat(s)}
    /\ output_dir = OutDir
    /\ java_checkbox \in BOOLEAN
    /\ python_checkbox \in BOOLEAN
    /\ python_grpc_checkbox \in BOOLEAN
    /\ convert_btn = FALSE
    /\ cancel_btn = TRUE
    /\ progress_bar = TRUE
    /\ worker = 1
    /\ guiPc = "idle"
    /\ log_text = <<>>
    /\ workers = <<NewWorker(output_dir, java_checkbox, python_checkbox,
                             python_grpc_checkbox, PROTOC, include_paths)>>
    /\ queue = <<>>
    /\ procs = <<>>
    /\ dirs = {output_dir}
    /\ probe = "none"
    /\ dialog = "none"

WorkerNext ==
    \/ RunBegin(1)
    \/ LoopStep(1)
    \/ JavaSpawn(1)
    \/ JavaResult(1)
    \/ PythonSpawn(1)
    \/ PythonResult(1)
    \/ ThreadExit(1)

\* the thread is scheduled and every subprocess it waits for ends
WorkerSpec == WorkerInit /\ [][WorkerNext]_vars /\ WF_vars(WorkerNext)

(***************************************************************************)
(* ProtoConverterGUI.  Its slots run on the GUI thread, one at a time; the *)
(* worker's signals reach it through queued connections, so an emission is *)
(* posted to the GUI thread's event queue and its slot is invoked when the *)
(* event loop dispatches it.  A click reaches a button only while the      *)
(* button is enabled.                                                      *)
(***************************************************************************)
StartedLine == <<"Conversion started">>
CancelledLine == <<"Conversion cancelled">>
OkLine(message) == <<"OK ">> \o message
FailLine(message) == <<"FAIL ">> \o message

\* reset_ui_state
ResetUi ==
    /\ convert_btn' = TRUE
    /\ cancel_btn' = FALSE
    /\ progress_bar' = FALSE

\* what the grpc_tools probe of lines 582-600 can answer: the module imports,
\* it does not, or the probe raises (the interpreter is missing, or the timeout)
ProbeResults == {"ok", "missing", "raised"}

\* lines 606-614: rebinding self.worker drops the window's reference to the
\* previous ProtocWorker; a previous worker whose thread has not ended yet
\* keeps running (of one that has returned from run only the ending thread is
\* left)
Leaving == [NewWorker(<<>>, FALSE, FALSE, FALSE, <<>>, <<>>) EXCEPT !.pc = "returned"]
Left(r) == IF r.pc = "returned" THEN Leaving ELSE r
Surviving(ws) ==
    LET alive == SelectSeq(ws, StillRunning)
    IN  [k \in 1..Len(alive) |-> Left(alive[k])]

\* the subprocesses the surviving workers are waiting for, under the places
\* the workers take behind the new one
RECURSIVE SurvivingProcs(_)
SurvivingProcs(ps) ==
    IF ps = <<>> THEN <<>>
    ELSE LET p == Head(ps) IN
         (IF p.alive /\ StillRunning(workers[p.run])
          THEN <<[p EXCEPT !.run =
                     1 + Cardinality({j \in 1..p.run : StillRunning(workers[j])})]>>
          ELSE <<>>) \o SurvivingProcs(Tail(ps))

\* the bug of not testing the output directory
ValidationWithoutOutputDir ==
    IF proto_files = <<>> THEN "no proto files"
    ELSE IF ~java_checkbox /\ ~python_checkbox /\ ~python_grpc_checkbox
    THEN "no generation option"
    ELSE "none"

\* start_conversion, lines 563-579: the warning the request is rejected with
Validation ==
    IF proto_files = <<>> THEN "no proto files"
    ELSE IF output_dir = <<>> THEN "no output directory"
    ELSE IF ~java_checkbox /\ ~python_checkbox /\ ~python_grpc_checkbox
    THEN "no generation option"
    ELSE "none"

\* start_conversion, lines 561-626
start_conversion ==
    /\ guiPc = "idle"
    /\ convert_btn
    /\ UNCHANGED <<proto_files, include_paths, output_dir,
                   java_checkbox, python_checkbox, python_grpc_checkbox, guiPc>>
    /\ IF Validation # "none"
       THEN /\ dialog' = Validation
            /\ UNCHANGED <<convert_btn, cancel_btn, progress_bar, worker, log_text,
                           workers, queue, procs, dirs, probe>>
       ELSE \E answer \in ProbeResults, mk \in Raises :
            /\ probe' = IF python_grpc_checkbox THEN answer ELSE probe
            /\ IF python_grpc_checkbox /\ answer # "ok"
               THEN /\ dialog' = IF answer = "missing" THEN "grpcio-tools missing"
                                 ELSE "cannot check grpcio-tools"
                    /\ UNCHANGED <<convert_btn, cancel_btn, progress_bar, worker,
                                   log_text, workers, queue, procs, dirs>>
               ELSE IF mk.raised
               THEN \* os.makedirs raises and nothing catches it
                    /\ dialog' = "unhandled exception"
                    /\ UNCHANGED <<convert_btn, cancel_btn, progress_bar, worker,
                                   log_text, workers, queue, procs, dirs>>
               ELSE /\ Len(Surviving(workers)) < MaxWorkers
                    /\ Len(queue) <= MaxStale
                    /\ dirs' = dirs \cup {output_dir}
                    /\ worker' = 1
                    /\ workers' = <<NewWorker(output_dir, java_checkbox, python_checkbox,
                                              python_grpc_checkbox, PROTOC, include_paths)>>
                                      \o Surviving(workers)
                    \* the emissions of a terminated worker still queued are
                    \* dispatched if its wrapper outlives the rebinding (the
                    \* killed thread never released its reference), dropped
                    \* if the wrapper is collected
                    /\ queue' \in {queue, <<>>}
                    /\ procs' = SurvivingProcs(procs)
                    /\ convert_btn' = FALSE
                    /\ cancel_btn' = TRUE
                    /\ progress_bar' = TRUE
                    /\ log_text' = <<StartedLine>>
                    /\ dialog' = "none"

\* cancel_conversion, lines 630-631: the test and the call of terminate
cancel_conversion ==
    /\ guiPc = "idle"
    /\ cancel_btn
    /\ UNCHANGED <<proto_files, include_paths, output_dir, java_checkbox,
                   python_checkbox, python_grpc_checkbox, worker, workers, queue,
                   procs, dirs, probe, dialog>>
    /\ IF worker # 0 /\ isRunning(worker)
       THEN /\ guiPc' = "wait"
            /\ UNCHANGED <<convert_btn, cancel_btn, progress_bar, log_text>>
       ELSE /\ ResetUi
            /\ UNCHANGED <<guiPc, log_text>>

\* QThread.terminate takes effect: the thread is stopped wherever it is
Terminated(w) ==
    /\ guiPc = "wait"
    /\ w = worker
    /\ isRunning(w)
    /\ workers' = [workers EXCEPT ![w].pc = "terminated"]
    /\ UNCHANGED <<guiVars, queue, procs, dirs>>

\* cancel_conversion, lines 632-635: wait returns once the thread has ended
cancel_wait_returns ==
    /\ guiPc = "wait"
    /\ ~isRunning(worker)
    /\ guiPc' = "idle"
    /\ log_text' = Append(log_text, CancelledLine)
    /\ ResetUi
    /\ UNCHANGED <<proto_files, include_paths, output_dir, java_checkbox,
                   python_checkbox, python_grpc_checkbox, worker, workers, queue,
                   procs, dirs, probe, dialog>>

\* update_progress, dispatched for the oldest queued emission
update_progress ==
    /\ guiPc = "idle"
    /\ queue # <<>>
    /\ Head(queue).sig = "progress"
    /\ queue' = Tail(queue)
    /\ log_text' = Append(log_text, Head(queue).text)
    /\ UNCHANGED <<proto_files, include_paths, output_dir, java_checkbox,
                   python_checkbox, python_grpc_checkbox, convert_btn, cancel_btn,
                   progress_bar, worker, guiPc, workers, procs, dirs, probe, dialog>>

\* show_generated_files: the heading, then a line for the output directory
\* and an indented one for each directory below it, when the directory exists
\* (the lines of the generated files themselves are not modelled)
GeneratedFilesLines ==
    IF output_dir \notin dirs THEN <<>>
    ELSE <<<<"Generated files:">>, basename(output_dir) \o <<"/">>>>
         \o (IF join(output_dir, <<"java">>) \in dirs
             THEN <<<<"  ", "java", "/">>>> ELSE <<>>)
         \o (IF join(output_dir, <<"python">>) \in dirs
             THEN <<<<"  ", "python", "/">>>> ELSE <<>>)

\* conversion_finished, dispatched for the oldest queued emission
conversion_finished ==
    /\ guiPc = "idle"
    /\ queue # <<>>
    /\ Head(queue).sig = "finished"
    /\ queue' = Tail(queue)
    /\ ResetUi
    /\ log_text' = IF Head(queue).success
                   THEN <<>> \o Append(log_text, OkLine(Head(queue).text))
                            \o GeneratedFilesLines
                   ELSE Append(log_text, FailLine(Head(queue).text))
    /\ UNCHANGED <<proto_files, include_paths, output_dir, java_checkbox,
                   python_checkbox, python_grpc_checkbox, worker, guiPc, workers,
                   procs, dirs, probe, dialog>>

(***************************************************************************)
(* The list editors.  Each changes the list object in place (append,       *)
(* clear), the object a ProtocWorker constructed from it still reads, and  *)
(* then refreshes the label that displays the list, which is a function of *)
(* the list and holds no state of its own.  Their buttons are never        *)
(* disabled.                                                               *)
(***************************************************************************)
\* the bug of appending without looking
AppendAll(list, items) == list \o items

\* for x in items: if x not in list: list.append(x)
RECURSIVE AppendNew(_, _)
AppendNew(list, items) ==
    IF items = <<>> THEN list
    ELSE IF \E k \in 1..Len(list) : list[k] = Head(items)
         THEN AppendNew(list, Tail(items))
         ELSE AppendNew(Append(list, Head(items)), Tail(items))

\* what the file dialog can return: nothing (the dialog was dismissed) or the
\* files selected, each once
GuiFiles == {FileA, FileB, FileR}
Selections == {s \in SeqsUpTo(GuiFiles, 2) : NoRepeat(s)}

\* what the directory dialogs can return: "" when dismissed, else a directory
FolderD == <<"/", "d">>
FolderE == <<"/", "e">>
\* the names Path(folder).glob("**/*.proto") finds below a folder
FolderEntries(folder) ==
    IF folder = FolderD THEN <<<<"a">>, <<"b">>>> ELSE <<>>
\* str(file) for each path the glob yields: the folder joined with the name
Glob(folder) ==
    [k \in 1..Len(FolderEntries(folder)) |-> join(folder, FolderEntries(folder)[k])]

EditUnchanged ==
    UNCHANGED <<output_dir, java_checkbox, python_checkbox, python_grpc_checkbox,
                convert_btn, cancel_btn, progress_bar, worker, guiPc, log_text,
                workers, queue, procs, dirs, probe, dialog>>

\* add_include_path, the dialog answering directory
add_include_path(directory) ==
    /\ guiPc = "idle"
    /\ include_paths' =
           IF directory # <<>> /\ ~\E k \in 1..Len(include_paths) :
                                      include_paths[k] = directory
           THEN Append(include_paths, directory)
           ELSE include_paths
    /\ Len(include_paths') <= MaxIncludes
    /\ UNCHANGED proto_files
    /\ EditUnchanged

\* clear_include_paths
clear_include_paths ==
    /\ guiPc = "idle"
    /\ include_paths' = <<>>
    /\ UNCHANGED proto_files
    /\ EditUnchanged

\* add_proto_files, the dialog answering files
add_proto_files(files) ==
    /\ guiPc = "idle"
    /\ proto_files' = AppendNew(proto_files, files)
    /\ Len(proto_files') <= MaxFiles
    /\ UNCHANGED include_paths
    /\ EditUnchanged

\* add_proto_folder, the dialog answering folder
add_proto_folder(folder) ==
    /\ guiPc = "idle"
    /\ proto_files' = IF folder # <<>> THEN AppendNew(proto_files, Glob(folder))
                      ELSE proto_files
    /\ Len(proto_files') <= MaxFiles
    /\ UNCHANGED include_paths
    /\ EditUnchanged

\* clear_proto_files
clear_proto_files ==
    /\ guiPc = "idle"
    /\ proto_files' = <<>>
    /\ UNCHANGED include_paths
    /\ EditUnchanged

(***************************************************************************)
(* The application: the window after __init__, with the lists, the output  *)
(* directory and the check boxes as the user has set them.                 *)
(***************************************************************************)
GuiFileOrder == <<FileA, FileB, FileR>>

Init ==
    /\ proto_files \in {SubSeq(GuiFileOrder, 1, k) : k \in 0..MaxFiles}
    /\ include_paths \in {<<>>, <<IncI>>}
    /\ output_dir \in {<<>>, OutDir}
    /\ java_checkbox \in BOOLEAN
    /\ python_checkbox \in BOOLEAN
    /\ python_grpc_checkbox \in BOOLEAN
    /\ convert_btn = TRUE
    /\ cancel_btn = FALSE
    /\ progress_bar = FALSE
    /\ worker = 0
    /\ guiPc = "idle"
    /\ log_text = <<>>
    /\ workers = <<>>
    /\ queue = <<>>
    /\ procs = <<>>
    /\ dirs = {}
    /\ probe = "none"
    /\ dialog = "none"

Next ==
    \/ start_conversion
    \/ cancel_conversion
    \/ cancel_wait_returns
    \/ update_progress
    \/ conversion_finished
    \/ \E w \in 1..Len(workers) : Terminated(w)
    \/ \E w \in 1..Len(workers) : RunBegin(w)
    \/ \E w \in 1..Len(workers) : LoopStep(w)
    \/ \E w \in 1..Len(workers) : JavaSpawn(w)
    \/ \E w \in 1..Len(workers) : JavaResult(w)
    \/ \E w \in 1..Len(workers) : PythonSpawn(w)
    \/ \E w \in 1..Len(workers) : PythonResult(w)
    \/ \E w \in 1..Len(workers) : ThreadExit(w)

Spec == Init /\ [][Next]_vars

(***************************************************************************)
(* The window and its list editors alone: the two lists start empty, as    *)
(* __init__ leaves them, and change only through the five editors.         *)
(***************************************************************************)
ListInit ==
    /\ proto_files = <<>>
    /\ include_paths = <<>>
    /\ output_dir \in {<<>>, OutDir}
    /\ java_checkbox \in BOOLEAN
    /\ python_checkbox \in BOOLEAN
    /\ python_grpc_checkbox \in BOOLEAN
    /\ convert_btn = TRUE
    /\ cancel_btn = FALSE
    /\ progress_bar = FALSE
    /\ worker = 0
    /\ guiPc = "idle"
    /\ log_text = <<>>
    /\ workers = <<>>
    /\ queue = <<>>
    /\ procs = <<>>
    /\ dirs = {}
    /\ probe = "none"
    /\ dialog = "none"

ListNext ==
    \/ \E directory \in {<<>>, IncI, IncJ} : add_include_path(directory)
    \/ clear_include_paths
    \/ \E files \in Selections : add_proto_files(files)
    \/ \E folder \in {<<>>, FolderD, FolderE} : add_proto_folder(folder)
    \/ clear_proto_files

ListSpec == ListInit /\ [][ListNext]_vars

(***************************************************************************)
(* A conversion under way while the user edits the lists: the state just   *)
(* after start_conversion has started a worker on the window's lists, then *)
(* the worker's steps interleaved with the editors (here adding /r, the    *)
(* folder /d or the include path /i, and the two clears).                  *)
(***************************************************************************)
EditInit ==
    /\ proto_files \in {SubSeq(GuiFileOrder, 1, k) : k \in 1..MaxFiles}
    /\ include_paths \in {<<>>, <<IncI>>}
    /\ output_dir = OutDir
    /\ java_checkbox \in BOOLEAN
    /\ python_checkbox \in BOOLEAN
    /\ python_grpc_checkbox \in BOOLEAN
    /\ java_checkbox \/ python_checkbox \/ python_grpc_checkbox
    /\ convert_btn = FALSE
    /\ cancel_btn = TRUE
    /\ progress_bar = TRUE
    /\ worker = 1
    /\ guiPc = "idle"
    /\ log_text = <<StartedLine>>
    /\ workers = <<NewWorker(output_dir, java_checkbox, python_checkbox,
                             python_grpc_checkbox, PROTOC, include_paths)>>
    /\ queue = <<>>
    /\ procs = <<>>
    /\ dirs = {output_dir}
    /\ probe = IF python_grpc_checkbox THEN "ok" ELSE "none"
    /\ dialog = "none"

EditNext ==
    \/ RunBegin(1)
    \/ LoopStep(1)
    \/ JavaSpawn(1)
    \/ JavaResult(1)
    \/ PythonSpawn(1)
    \/ PythonResult(1)
    \/ ThreadExit(1)
    \/ add_include_path(IncI)
    \/ clear_include_paths
    \/ add_proto_files(<<FileR>>)
    \/ add_proto_folder(FolderD)
    \/ clear_proto_files

EditSpec == EditInit /\ [][EditNext]_vars

(***************************************************************************)
(* Vocabulary of the properties.  Under WorkerSpec nothing is dispatched,  *)
(* so queue holds every emission of the run, in emission order.            *)
(***************************************************************************)
IsProgress(m) == m.sig = "progress"
IsFinished(m) == m.sig = "finished"
IsFileProgress(m) == m.sig = "progress" /\ m.text[1] = "Processing: "
ProgressMsgs == SelectSeq(queue, IsProgress)
FinishedMsgs == SelectSeq(queue, IsFinished)
FileProgressMsgs == SelectSeq(queue, IsFileProgress)

N == Len(proto_files)
\* the subprocesses one file needs
K == (IF java_checkbox THEN 1 ELSE 0)
         + (IF python_checkbox \/ python_grpc_checkbox THEN 1 ELSE 0)
Returned == workers[1].pc \in {"returned", "finished"}
FailedProcs == {k \in 1..Len(procs) : ~procs[k].alive /\ procs[k].returncode # 0}
\* the per-file notifications of files 1..k, as the run emits them
FileProgressUpTo(k) == [j \in 1..k |-> Progress(ProcessingText(proto_files[j], j, N))]

HasArg(cmd, prefix) == \E j \in 1..Len(cmd) : cmd[j][1] = prefix
IsToolchain(p) == p.cmd[1] = PYTHON
IsProtoPath(arg) == arg[1] = "--proto_path="
Contains(text, part) ==
    \E j \in 0..(Len(text) - Len(part)) : SubSeq(text, j + 1, j + Len(part)) = part

\* every subprocess the files need was spawned and exited 0
AllSucceeded ==
    /\ Returned
    /\ N >= 1
    /\ K >= 1
    /\ Len(procs) = N * K
    /\ \A k \in 1..Len(procs) : ~procs[k].alive /\ procs[k].returncode = 0

\* C1 as stated: a run over N files in which every subprocess exits 0 emits
\* exactly N progress notifications, in file order, then one success terminal
\* notification whose count is N.
C1_AsStated ==
    AllSucceeded =>
        /\ ProgressMsgs = FileProgressUpTo(N)
        /\ queue = ProgressMsgs \o <<Finished(TRUE, SuccessText(N))>>

\* C1 amended: such a run emits exactly N per-file notifications ("Processing:
\* file (i/N)"), in file order, and one more progress notification before
\* each subprocess, N * (1 + K) in all for K subprocesses per file, then
\* exactly one terminal notification, a success whose count is N.
C1_ProgressPerFileAndTarget ==
    AllSucceeded =>
        /\ FileProgressMsgs = FileProgressUpTo(N)
        /\ Len(ProgressMsgs) = N * (1 + K)
        /\ queue = ProgressMsgs \o <<Finished(TRUE, SuccessText(N))>>

C1_Witness == AllSucceeded /\ N = 3 /\ K = 2

C2_OneTerminalLast ==
    /\ Len(FinishedMsgs) <= 1
    /\ Returned <=> Len(FinishedMsgs) = 1
    /\ Len(FinishedMsgs) = 1 => IsFinished(queue[Len(queue)])

\* C2: whatever each subprocess and each makedirs does, a run that is not
\* cancelled eventually emits finished, emits it exactly once, and emits no
\* progress notification after it.
C2_TerminalExactlyOnce == <>Returned /\ []C2_OneTerminalLast

\* a run ended by an exception of makedirs or of the spawn, after one file
C2_Witness ==
    /\ Returned
    /\ workers[1].success_count = 1
    /\ FinishedMsgs = <<Finished(FALSE, RunErrorText(<<"OSError">>))>>

\* C3: once a generation subprocess has exited non-zero the run spawns no
\* other subprocess, neither for the same file nor for a later one, and it
\* ends with a failure terminal notification.
C3_FailFast ==
    \A k \in FailedProcs :
        /\ k = Len(procs)
        /\ Returned
        /\ FinishedMsgs = <<queue[Len(queue)]>>
        /\ ~queue[Len(queue)].success

\* the native target of the first of several files fails, the script target is on
C3_Witness ==
    /\ FailedProcs = {1}
    /\ ~IsToolchain(procs[1])
    /\ python_grpc_checkbox
    /\ N >= 2

\* C4 as stated: when file k fails an invocation, exactly k-1 progress
\* notifications have been emitted before the failure terminal notification.
C4_AsStated ==
    \A k \in FailedProcs : ProgressMsgs = FileProgressUpTo(procs[k].pos - 1)

\* C4 amended: the per-file notification of a file is emitted before any
\* target of the file is attempted, so when file k fails an invocation the
\* per-file notifications of files 1..k have been emitted, in order, with one
\* more progress notification before each subprocess spawned; k-1 files are
\* counted, no file after k is attempted and one failure terminal follows.
C4_ProgressBeforeTargets ==
    \A k \in FailedProcs :
        LET pos == procs[k].pos IN
        /\ FileProgressMsgs = FileProgressUpTo(pos)
        /\ Len(ProgressMsgs) = pos + Len(procs)
        /\ workers[1].success_count = pos - 1
        /\ \A j \in 1..Len(procs) : procs[j].pos <= pos
        /\ queue = ProgressMsgs \o FinishedMsgs
        /\ Len(FinishedMsgs) = 1

\* the second of three files fails its native target
C4_Witness ==
    /\ N = 3
    /\ \E k \in FailedProcs : procs[k].pos = 2 /\ ~IsToolchain(procs[k])

\* C8: for every file the run spawns at most one toolchain subprocess: none
\* with both script options off, one with --python_out alone when only the
\* basic option is on, one with --python_out and --grpc_python_out whenever
\* the RPC option is on.
C8_OneToolchainPerFile ==
    \A pos \in 1..N :
        LET tc == {k \in 1..Len(procs) : IsToolchain(procs[k]) /\ procs[k].pos = pos} IN
        /\ Cardinality(tc) <= 1
        /\ ~python_checkbox /\ ~python_grpc_checkbox => tc = {}
        /\ (python_checkbox \/ python_grpc_checkbox) /\ workers[1].i >= pos => tc # {}
        /\ \A k \in tc :
              /\ HasArg(procs[k].cmd, "--python_out=")
              /\ HasArg(procs[k].cmd, "--grpc_python_out=") <=> python_grpc_checkbox

\* both script options on, two files done: one toolchain subprocess each
C8_Witness ==
    /\ python_checkbox /\ python_grpc_checkbox
    /\ workers[1].i = 2
    /\ Cardinality({k \in 1..Len(procs) : IsToolchain(procs[k])}) = 2

\* what C9 says the include arguments of a file are
C9_Expected(proto_file) ==
    LET D == dirname(proto_file)
        listed == (IF D # <<>> THEN <<D>> ELSE <<>>) \o include_paths
    IN  IF listed = <<>> THEN <<ProtoPathArg(<<".">>)>>
        ELSE [j \in 1..Len(listed) |-> ProtoPathArg(listed[j])]

\* C9: the include arguments of every subprocess are the directory of its
\* file, when the path has one, then the include paths in their order, and
\* exactly "." when that list would be empty; never an empty list.
C9_IncludeArguments ==
    \A k \in 1..Len(procs) :
        /\ SelectSeq(procs[k].cmd, IsProtoPath) = C9_Expected(procs[k].file)
        /\ SelectSeq(procs[k].cmd, IsProtoPath) # <<>>

\* a file of directory /d with include paths [/j, /i], and after it a file
\* with no directory part
C9_Witness ==
    /\ include_paths = <<IncJ, IncI>>
    /\ \E k \in 1..Len(procs) :
          /\ procs[k].file = FileA
          /\ SelectSeq(procs[k].cmd, IsProtoPath)
                 = <<ProtoPathArg(<<"/", "d">>), ProtoPathArg(IncJ), ProtoPathArg(IncI)>>
    /\ \E k \in 1..Len(procs) : procs[k].file = FileC

C10_Label(p) ==
    IF ~IsToolchain(p) THEN "Java generation failed: "
    ELSE IF HasArg(p.cmd, "--grpc_python_out=") THEN "Python gRPC generation failed: "
    ELSE "Python generation failed: "

C10_TargetProgress(p) ==
    IF ~IsToolchain(p) THEN JavaProgressText(p.file)
    ELSE IF HasArg(p.cmd, "--grpc_python_out=") THEN GrpcProgressText(p.file)
    ELSE PythonProgressText(p.file)

Invalid ==
    \/ proto_files = <<>>
    \/ output_dir = <<>>
    \/ ~java_checkbox /\ ~python_checkbox /\ ~python_grpc_checkbox

\* C5: start_conversion rejects a request with no file, with an empty output
\* directory or with no target, and returns before any subprocess is spawned
\* (the probe included), before any directory is created and before a worker
\* is created or started, with the buttons and self.worker as they were.
C5_RejectsBeforeAnyEffect ==
    [][start_conversion /\ Invalid =>
          /\ dialog' \in {"no proto files", "no output directory", "no generation option"}
          /\ UNCHANGED <<workers, worker, procs, dirs, probe, queue, log_text,
                         convert_btn, cancel_btn, progress_bar>>]_vars

\* a request with files and an output directory and no target has been rejected
C5_Witness ==
    /\ dialog = "no generation option"
    /\ proto_files # <<>>
    /\ output_dir # <<>>
    /\ workers = <<>> /\ dirs = {} /\ probe = "none" /\ convert_btn

ProgressPrefixes ==
    {"Processing: ", "Generating Java: ", "Generating Python + gRPC: ", "Generating Python: "}
IsProgressLine(line) == line[1] \in ProgressPrefixes

\* C6: once cancel_conversion has been executed during a run, update_progress
\* is not invoked again: no progress line follows "Conversion cancelled" in
\* the log of the run.
C6_NoProgressAfterCancel ==
    \A j, k \in 1..Len(log_text) :
        j < k /\ log_text[j] = CancelledLine => ~IsProgressLine(log_text[k])

\* C7: at most one run is active at any time: no worker is created and
\* started while the thread of an earlier one is still running.
C7_AtMostOneRunning ==
    Cardinality({w \in 1..Len(workers) : isRunning(w)}) <= 1

\* a step of worker w in which makedirs or the spawn raised: run leaves the
\* target it was about to start without having spawned a subprocess
Faulted(w) ==
    /\ UNCHANGED guiVars
    /\ Len(workers') = Len(workers)
    /\ workers[w].pc \in {"java", "python"}
    /\ workers'[w].pc = "returned"

\* C11: every environment fault of a started conversion (a directory that
\* cannot be created, the output root included, or an executable that cannot
\* be spawned) becomes exactly one failure terminal notification carrying
\* the exception text; none propagates unhandled.
C11_FaultsBecomeTerminal ==
    [][/\ start_conversion => dialog' # "unhandled exception"
       /\ \A w \in 1..Len(workers) :
             Faulted(w) =>
                 /\ Len(SelectSeq(queue', IsFinished))
                        = Len(SelectSeq(queue, IsFinished)) + 1
                 /\ ~queue'[Len(queue')].success
                 /\ \E e \in ExcTexts : Contains(queue'[Len(queue')].text, e)]_vars

\* cancel_conversion has returned for the run of the current log
Cancelled == \E j \in 1..Len(log_text) : log_text[j] = CancelledLine

\* C13: once cancel_conversion has returned and the run is treated as over,
\* no subprocess spawned by the cancelled run is still running.
C13_NoSubprocessAfterCancel ==
    Cancelled /\ guiPc = "idle" =>
        \A k \in 1..Len(procs) : procs[k].run = worker => ~procs[k].alive

(***************************************************************************)
(* Properties of a conversion under way while the lists are edited         *)
(* (EditSpec) and of the list editors (ListSpec).                          *)
(***************************************************************************)
\* the worker has been started and run has not returned yet
InRun(w) == workers[w].pc \notin {"returned", "finished", "terminated"}

\* C12: the file list and the include-path list a worker was started with
\* are not mutated while it runs, whatever the editors do meanwhile: the
\* lists it reads stay as they were at start_conversion, and the position
\* of a file never exceeds the total computed at the start of the run.
C12_ListsFrozenWhileRunning ==
    [][/\ InRun(1) =>
             /\ WorkerFiles(1)' = WorkerFiles(1)
             /\ WorkerIncludePaths(1)' = WorkerIncludePaths(1)
       /\ \A k \in 1..Len(procs') : procs'[k].pos <= workers'[1].total_files]_vars

Elements(list) == {list[k] : k \in 1..Len(list)}
\* the items not in the list yet, in the order given
Unseen(list, items) == SelectSeq(items, LAMBDA x : x \notin Elements(list))

\* C14: after any sequence of the five editors neither list holds two equal
\* strings, an addition appends the paths not present yet behind those
\* already there, in the order they were given, and adding a path already
\* present changes neither list.
C14_NoDuplicatesFirstSeenOrder ==
    /\ [](NoRepeat(proto_files) /\ NoRepeat(include_paths))
    /\ [][/\ \A files \in Selections :
                add_proto_files(files) =>
                    proto_files' = proto_files \o Unseen(proto_files, files)
          /\ \A folder \in {FolderD, FolderE} :
                add_proto_folder(folder) =>
                    proto_files' = proto_files \o Unseen(proto_files, Glob(folder))
          /\ \A directory \in {IncI, IncJ} :
                add_include_path(directory) =>
                    include_paths' = include_paths \o Unseen(include_paths, <<directory>>)
          /\ proto_files' = <<>> \/ SubSeq(proto_files', 1, Len(proto_files)) = proto_files
          /\ include_paths' = <<>>
               \/ SubSeq(include_paths', 1, Len(include_paths)) = include_paths]_vars

\* both lists full, in an order only first-seen order explains
C14_Witness ==
    /\ proto_files = <<FileR, FileA>>
    /\ include_paths = <<IncJ, IncI>>


====
